---- MODULE Spec2Model ----
(***************************************************************************)
(* Model of the three teaching scripts of quant-macro:                     *)
(*   midterm1-4,5.py  two-country HP-filter comparison (Spain vs Japan)    *)
(*   project1.py      HP-filter lambda sensitivity                         *)
(*   midterm2.py      growth accounting (GrowthAccounting)                 *)
(*                                                                         *)
(* Numbers.  Reals are exact rationals <<n, d>> in lowest terms, d > 0.    *)
(* A GDP level of the provider is e^k and is written [kind |-> "num",     *)
(* exp |-> k], so that np.log is exact (Log below); a missing value is    *)
(* [kind |-> "nan", ...].  Scalars whose value needs a square root (std,  *)
(* Pearson correlation) are kept as float classes "nan", "zero", "pos",   *)
(* "inf", "finite": the class is computed from the exact values.          *)
(***************************************************************************)
EXTENDS Integers, Sequences, FiniteSets, TLC

\* ---------------------------------------------------------------- bounds
\* dates of the provider's calendar are 1..MaxT
MaxT == 3
\* GDP levels are e^0 .. e^MaxExp
MaxExp == 1

VARIABLES
  script,              \* which script runs: "midterm1" | "project1" | "midterm2"
  pc,                  \* position in the script
  err,                 \* exception that aborted the script ("none" if none)
  provider,            \* what fred.get_series returns, by series id
  spain_gdp, japan_gdp,
  common_start, common_end,
  spain_gdp_aligned, japan_gdp_aligned,
  log_spain_gdp, log_japan_gdp,
  spain_trend, spain_cycle, japan_trend, japan_cycle,
  spain_cycle_std, japan_cycle_std, std_ratio,
  correlation, correlation_strength, interpretation,
  gdp_data, log_gdp, lam_i, trends, cycles,
  hp_calls,            \* the series handed to hpfilter so far, with lamb
  data, country_i, results

hpvars == <<provider, spain_gdp, japan_gdp, common_start, common_end,
            spain_gdp_aligned, japan_gdp_aligned, log_spain_gdp, log_japan_gdp,
            spain_trend, spain_cycle, japan_trend, japan_cycle,
            spain_cycle_std, japan_cycle_std, std_ratio,
            gdp_data, log_gdp, lam_i, trends, cycles, hp_calls>>
labelvars == <<correlation, correlation_strength, interpretation>>
growthvars == <<data, country_i, results>>
vars == <<script, pc, err, hpvars, labelvars, growthvars>>

\* ------------------------------------------------------------- rationals
Abs(x) == IF x < 0 THEN -x ELSE x

RECURSIVE GCD(_, _)
GCD(a, b) == IF b = 0 THEN a ELSE GCD(b, a % b)

\* the rational n/d (d # 0) in lowest terms with a positive denominator
Rat(n, d) ==
  LET g == GCD(Abs(n), Abs(d))
      s == IF d < 0 THEN -1 ELSE 1
  IN  <<(s * n) \div g, (s * d) \div g>>

RAdd(a, b) ==
  LET g == GCD(a[2], b[2])
  IN  Rat(a[1] * (b[2] \div g) + b[1] * (a[2] \div g), (a[2] \div g) * b[2])

RNeg(a) == <<-a[1], a[2]>>
RSub(a, b) == RAdd(a, RNeg(b))
RMul(a, b) ==
  LET g1 == GCD(Abs(a[1]), b[2])
      g2 == GCD(Abs(b[1]), a[2])
  IN  Rat((a[1] \div g1) * (b[1] \div g2), (a[2] \div g2) * (b[2] \div g1))
RDiv(a, b) == RMul(a, Rat(b[2], b[1]))
RInt(k) == <<k, 1>>
RLess(a, b) == a[1] * b[2] < b[1] * a[2]

RECURSIVE SumSeq(_)
SumSeq(s) == IF s = <<>> THEN 0 ELSE Head(s) + SumSeq(Tail(s))

\* ---------------------------------------------------------------- series
\* A pandas Series with a DatetimeIndex: a sequence of [t, v], t increasing.
Num(k) == [kind |-> "num", exp |-> k]
NaN == [kind |-> "nan", exp |-> 0]
RawVals == {Num(k) : k \in 0..MaxExp}

Index(s) == [i \in 1..Len(s) |-> s[i].t]
Dates(s) == {s[i].t : i \in 1..Len(s)}
Values(s) == [i \in 1..Len(s) |-> s[i].v]
SetMin(S) == CHOOSE x \in S : \A y \in S : x <= y
SetMax(S) == CHOOSE x \in S : \A y \in S : x >= y

\* fred.get_series: one entry per date, a level or a missing value.  A series
\* that starts late or ends early is one with missing values at its ends:
\* dropna is the first thing either script does with it.
ProviderSeries ==
  {[i \in 1..MaxT |-> [t |-> i, v |-> f[i]]] : f \in [1..MaxT -> RawVals \cup {NaN}]}

IsMissing(e) == e.v.kind = "nan"
NotMissing(e) == ~IsMissing(e)

\* Series.dropna(): the missing entries are removed, the rest kept in order
dropna_fill(s) == [i \in 1..Len(s) |-> IF IsMissing(s[i]) THEN [t |-> s[i].t, v |-> Num(0)] ELSE s[i]]
dropna(s) == SelectSeq(s, NotMissing)

\* s[lo:hi] on a sorted DatetimeIndex: label slicing, both ends included
LabelSlice_exclusive(s, lo, hi) == LET In(e) == lo <= e.t /\ e.t < hi IN SelectSeq(s, In)
LabelSlice(s, lo, hi) == LET In(e) == lo <= e.t /\ e.t <= hi IN SelectSeq(s, In)

\* np.log on a series of levels e^k (no missing value reaches it)
Log(s) == [i \in 1..Len(s) |-> [t |-> s[i].t, v |-> s[i].v.exp]]

\* ------------------------------------------------------------- HP filter
\* statsmodels.tsa.filters.hp_filter.hpfilter(x, lamb):
\*   K     = the (nobs-2) x nobs second-difference matrix, rows (1, -2, 1)
\*   trend = spsolve(I + lamb * K'K, x);  cycle = x - trend
\*   return cycle, trend
\* The solve is exact here, through (I + lamb K'K)^-1 = I - lamb K'(I + lamb KK')^-1 K.
KEntry(i, c) == IF c = i THEN 1 ELSE IF c = i + 1 THEN -2 ELSE IF c = i + 2 THEN 1 ELSE 0

\* a sequence given by a rule, as the tuple of its values
Tuple(s) == s \o <<>>

\* I + lamb * K K', a square matrix of size nobs - 2, as a sequence of rows
SmallSystem(nobs, lamb) ==
  Tuple([i \in 1..(nobs - 2) |->
     Tuple([j \in 1..(nobs - 2) |->
        (IF i = j THEN 1 ELSE 0)
        + lamb * SumSeq([c \in 1..nobs |-> KEntry(i, c) * KEntry(j, c)])])])

DropAt(s, k) == Tuple([i \in 1..(Len(s) - 1) |-> IF i < k THEN s[i] ELSE s[i + 1]])
Minor(M, r, c) == Tuple([i \in 1..(Len(M) - 1) |-> DropAt(DropAt(M, r)[i], c)])

RECURSIVE Det(_)
Det(M) ==
  IF Len(M) = 0 THEN 1
  ELSE SumSeq([j \in 1..Len(M) |->
                 (IF j % 2 = 1 THEN 1 ELSE -1) * M[1][j] * Det(Minor(M, 1, j))])

Adjugate(M) ==
  Tuple([i \in 1..Len(M) |->
     Tuple([j \in 1..Len(M) |->
        (IF (i + j) % 2 = 0 THEN 1 ELSE -1) * Det(Minor(M, j, i))])])

\* x - lamb * K' adj(B) K x / det(B), entry by entry
TrendFrom(x, lamb, det, adj) ==
  LET nobs == Len(x)
      Kx == Tuple([i \in 1..(nobs - 2) |-> SumSeq([c \in 1..nobs |-> KEntry(i, c) * x[c]])])
      w == Tuple([i \in 1..(nobs - 2) |-> SumSeq([j \in 1..(nobs - 2) |-> adj[i][j] * Kx[j]])])
      u == Tuple([c \in 1..nobs |-> SumSeq([i \in 1..(nobs - 2) |-> KEntry(i, c) * w[i]])])
  IN  Tuple([c \in 1..nobs |-> Rat(det * x[c] - lamb * u[c], det)])

\* the trend of x (a sequence of integers), as a sequence of rationals
HPTrend(x, lamb) ==
  LET B == SmallSystem(Len(x), lamb)
  IN  TrendFrom(x, lamb, Det(B), Adjugate(B))

\* pw.wrap: the values back on the index of the input series
Wrap(s, vals) == [i \in 1..Len(s) |-> [t |-> s[i].t, v |-> vals[i]]]

HPCycle(x, trend) == [i \in 1..Len(x) |-> RSub(RInt(x[i]), trend[i])]

HPOk(s, lamb) ==
  LET x == Values(s)
      trend == HPTrend(x, lamb)
  IN  [ok |-> TRUE, err |-> "none", ret |-> <<Wrap(s, HPCycle(x, trend)), Wrap(s, trend)>>]
HPRaise == [ok |-> FALSE, err |-> "ValueError", ret |-> <<<<>>, <<>>>>]

\* What a call can do.  nobs <= 1: the shape (nobs - 2, nobs) of K is negative
\* and scipy raises ValueError.  nobs = 2: K has no row; a scipy that accepts
\* the empty matrix returns trend = x, cycle = 0, one that does not raises.
\* No length check is made and no other exception kind is raised.
hpfilter(s, lamb) ==
  IF Len(s) <= 1 THEN {HPRaise}
  ELSE IF Len(s) = 2 THEN {HPRaise, HPOk(s, lamb)}
  ELSE {HPOk(s, lamb)}

\* ------------------------------------------------------- float statistics
AllEqual(s) == \A i, j \in 1..Len(s) : s[i].v = s[j].v

\* Series.std() (ddof = 1): NaN below 2 observations, 0 iff all values agree
Std(s) == IF Len(s) < 2 THEN "nan" ELSE IF AllEqual(s) THEN "zero" ELSE "pos"

\* numpy float64 division: never raises; x/0 is inf, 0/0 and NaN/x are NaN
FDiv(a, b) ==
  IF a = "nan" \/ b = "nan" THEN "nan"
  ELSE IF b = "zero" THEN (IF a = "zero" THEN "nan" ELSE "inf")
  ELSE IF a = "zero" THEN "zero" ELSE "pos"

\* Series.corr(other): the two series are inner-joined on their index first;
\* NaN if fewer than 2 joined points or a joined series is constant
InnerJoin(a, b) == LET In(e) == e.t \in Dates(b) IN SelectSeq(a, In)
Corr(a, b) ==
  LET ja == InnerJoin(a, b)
      jb == InnerJoin(b, a)
  IN  IF Len(ja) < 2 \/ AllEqual(ja) \/ AllEqual(jb)
      THEN [cls |-> "nan", num |-> 0, n |-> Len(ja)]
      ELSE [cls |-> "finite", num |-> 0, n |-> Len(ja)]

\* ------------------------------------------- state shared by the scripts
NoSeries == <<>>
NoDict == [l \in {} |-> NoSeries]
NoCorr == [cls |-> "unset", num |-> 0, n |-> 0]
SPAIN == "CLVMNACSCAB1GQES"
JAPAN == "JPNRGDPEXP"

HPIdle ==
  /\ spain_gdp = NoSeries /\ japan_gdp = NoSeries
  /\ common_start = 0 /\ common_end = 0
  /\ spain_gdp_aligned = NoSeries /\ japan_gdp_aligned = NoSeries
  /\ log_spain_gdp = NoSeries /\ log_japan_gdp = NoSeries
  /\ spain_trend = NoSeries /\ spain_cycle = NoSeries
  /\ japan_trend = NoSeries /\ japan_cycle = NoSeries
  /\ spain_cycle_std = "unset" /\ japan_cycle_std = "unset" /\ std_ratio = "unset"
  /\ gdp_data = NoSeries /\ log_gdp = NoSeries /\ lam_i = 1
  /\ trends = NoDict /\ cycles = NoDict
  /\ hp_calls = {}
LabelIdle ==
  /\ correlation = NoCorr /\ correlation_strength = "unset" /\ interpretation = "unset"
GrowthIdle ==
  /\ data = <<>> /\ country_i = 1 /\ results = <<>>

Abort(e) == pc' = "aborted" /\ err' = e

\* ------------------------------------------------------- midterm1-4,5.py
\* lines 14-16: get_series, dropna, print of index[0] and index[-1]
M1_FetchSpain ==
  /\ script = "midterm1" /\ pc = "fetch_spain"
  /\ spain_gdp' = dropna(provider[SPAIN])
  /\ IF spain_gdp' = NoSeries THEN Abort("IndexError")
     ELSE pc' = "fetch_japan" /\ err' = err
  /\ UNCHANGED <<script, provider, japan_gdp, common_start, common_end,
                 spain_gdp_aligned, japan_gdp_aligned, log_spain_gdp, log_japan_gdp,
                 spain_trend, spain_cycle, japan_trend, japan_cycle,
                 spain_cycle_std, japan_cycle_std, std_ratio,
                 gdp_data, log_gdp, lam_i, trends, cycles, hp_calls,
                 labelvars, growthvars>>

\* lines 20-22
M1_FetchJapan ==
  /\ script = "midterm1" /\ pc = "fetch_japan"
  /\ japan_gdp' = dropna(provider[JAPAN])
  /\ IF japan_gdp' = NoSeries THEN Abort("IndexError")
     ELSE pc' = "align" /\ err' = err
  /\ UNCHANGED <<script, provider, spain_gdp, common_start, common_end,
                 spain_gdp_aligned, japan_gdp_aligned, log_spain_gdp, log_japan_gdp,
                 spain_trend, spain_cycle, japan_trend, japan_cycle,
                 spain_cycle_std, japan_cycle_std, std_ratio,
                 gdp_data, log_gdp, lam_i, trends, cycles, hp_calls,
                 labelvars, growthvars>>

\* lines 25-33: the common range and the two slices; nothing is raised when
\* common_start > common_end, the slices are then empty
M1_Align ==
  /\ script = "midterm1" /\ pc = "align"
  /\ common_start' = SetMax({SetMin(Dates(spain_gdp)), SetMin(Dates(japan_gdp))})
  /\ common_end' = SetMin({SetMax(Dates(spain_gdp)), SetMax(Dates(japan_gdp))})
  /\ spain_gdp_aligned' = LabelSlice(spain_gdp, common_start', common_end')
  /\ japan_gdp_aligned' = LabelSlice(japan_gdp, common_start', common_end')
  /\ pc' = "log"
  /\ UNCHANGED <<script, err, provider, spain_gdp, japan_gdp,
                 log_spain_gdp, log_japan_gdp,
                 spain_trend, spain_cycle, japan_trend, japan_cycle,
                 spain_cycle_std, japan_cycle_std, std_ratio,
                 gdp_data, log_gdp, lam_i, trends, cycles, hp_calls,
                 labelvars, growthvars>>

\* lines 36-37
M1_Log ==
  /\ script = "midterm1" /\ pc = "log"
  /\ log_spain_gdp' = Log(spain_gdp_aligned)
  /\ log_japan_gdp' = Log(japan_gdp_aligned)
  /\ pc' = "hpfilter"
  /\ UNCHANGED <<script, err, provider, spain_gdp, japan_gdp, common_start, common_end,
                 spain_gdp_aligned, japan_gdp_aligned,
                 spain_trend, spain_cycle, japan_trend, japan_cycle,
                 spain_cycle_std, japan_cycle_std, std_ratio,
                 gdp_data, log_gdp, lam_i, trends, cycles, hp_calls,
                 labelvars, growthvars>>

\* line 41: spain_trend, spain_cycle = hpfilter(...): the first element of the
\* returned pair goes to *_trend, the second to *_cycle
M1_Unpack_first_twice(ret) == [trend |-> ret[1], cycle |-> ret[1]]
M1_Unpack(ret) == [trend |-> ret[1], cycle |-> ret[2]]

\* lines 41-42: lamb = 1600 for both; the second call is made only if the
\* first returned
M1_HPFilter ==
  /\ script = "midterm1" /\ pc = "hpfilter"
  /\ \E o1 \in hpfilter(log_spain_gdp, 1600) :
       IF ~o1.ok
       THEN /\ Abort(o1.err)
            /\ hp_calls' = hp_calls \cup {[x |-> log_spain_gdp, lamb |-> 1600]}
            /\ UNCHANGED <<spain_trend, spain_cycle, japan_trend, japan_cycle>>
       ELSE /\ spain_trend' = M1_Unpack(o1.ret).trend
            /\ spain_cycle' = M1_Unpack(o1.ret).cycle
            /\ hp_calls' = hp_calls \cup {[x |-> log_spain_gdp, lamb |-> 1600],
                                          [x |-> log_japan_gdp, lamb |-> 1600]}
            /\ \E o2 \in hpfilter(log_japan_gdp, 1600) :
                 IF ~o2.ok
                 THEN /\ Abort(o2.err)
                      /\ UNCHANGED <<japan_trend, japan_cycle>>
                 ELSE /\ japan_trend' = M1_Unpack(o2.ret).trend
                      /\ japan_cycle' = M1_Unpack(o2.ret).cycle
                      /\ pc' = "stats" /\ err' = err
  /\ UNCHANGED <<script, provider, spain_gdp, japan_gdp, common_start, common_end,
                 spain_gdp_aligned, japan_gdp_aligned, log_spain_gdp, log_japan_gdp,
                 spain_cycle_std, japan_cycle_std, std_ratio,
                 gdp_data, log_gdp, lam_i, trends, cycles,
                 labelvars, growthvars>>

\* lines 49-64: the two standard deviations, their ratio (printed, then
\* compared with 1), the correlation (printed).  No check of the two indexes
\* is made and no step raises.  What follows line 64 is M1_Label and
\* M1_Summary below, on a correlation that carries its value; the plots
\* (lines 83-130) are not modelled.
M1_Statistics ==
  /\ script = "midterm1" /\ pc = "stats"
  /\ spain_cycle_std' = Std(spain_cycle)
  /\ japan_cycle_std' = Std(japan_cycle)
  /\ std_ratio' = FDiv(spain_cycle_std', japan_cycle_std')
  /\ correlation' = Corr(spain_cycle, japan_cycle)
  /\ pc' = "reported"
  /\ UNCHANGED <<script, err, provider, spain_gdp, japan_gdp, common_start, common_end,
                 spain_gdp_aligned, japan_gdp_aligned, log_spain_gdp, log_japan_gdp,
                 spain_trend, spain_cycle, japan_trend, japan_cycle,
                 gdp_data, log_gdp, lam_i, trends, cycles, hp_calls,
                 correlation_strength, interpretation, growthvars>>

\* ------------------------------------------------------------ project1.py
lambdas == <<10, 100, 1600>>

\* lines 11-12
P1_Fetch ==
  /\ script = "project1" /\ pc = "fetch"
  /\ gdp_data' = dropna(provider[SPAIN])
  /\ pc' = "log"
  /\ UNCHANGED <<script, err, provider, spain_gdp, japan_gdp, common_start, common_end,
                 spain_gdp_aligned, japan_gdp_aligned, log_spain_gdp, log_japan_gdp,
                 spain_trend, spain_cycle, japan_trend, japan_cycle,
                 spain_cycle_std, japan_cycle_std, std_ratio,
                 log_gdp, lam_i, trends, cycles, hp_calls,
                 labelvars, growthvars>>

\* line 15
P1_Log ==
  /\ script = "project1" /\ pc = "log"
  /\ log_gdp' = Log(gdp_data)
  /\ pc' = "loop"
  /\ UNCHANGED <<script, err, provider, spain_gdp, japan_gdp, common_start, common_end,
                 spain_gdp_aligned, japan_gdp_aligned, log_spain_gdp, log_japan_gdp,
                 spain_trend, spain_cycle, japan_trend, japan_cycle,
                 spain_cycle_std, japan_cycle_std, std_ratio,
                 gdp_data, lam_i, trends, cycles, hp_calls,
                 labelvars, growthvars>>

\* line 23: cycle, trend = hpfilter(log_gdp, lam)
P1_Unpack(ret) == [cycle |-> ret[1], trend |-> ret[2]]

DictPut(d, k, val) == [l \in DOMAIN d \cup {k} |-> IF l = k THEN val ELSE d[l]]

\* lines 22-25: one pass of the loop over lambdas
P1_FilterLam ==
  /\ script = "project1" /\ pc = "loop" /\ lam_i <= Len(lambdas)
  /\ LET lam == lambdas[lam_i] IN
       /\ hp_calls' = hp_calls \cup {[x |-> log_gdp, lamb |-> lam]}
       /\ \E o \in hpfilter(log_gdp, lam) :
            IF ~o.ok
            THEN Abort(o.err) /\ UNCHANGED <<lam_i, trends, cycles>>
            ELSE /\ trends' = DictPut(trends, lam, P1_Unpack(o.ret).trend)
                 /\ cycles' = DictPut(cycles, lam, P1_Unpack(o.ret).cycle)
                 /\ lam_i' = lam_i + 1
                 /\ pc' = (IF lam_i = Len(lambdas) THEN "plotted" ELSE "loop")
                 /\ err' = err
  /\ UNCHANGED <<script, provider, spain_gdp, japan_gdp, common_start, common_end,
                 spain_gdp_aligned, japan_gdp_aligned, log_spain_gdp, log_japan_gdp,
                 spain_trend, spain_cycle, japan_trend, japan_cycle,
                 spain_cycle_std, japan_cycle_std, std_ratio,
                 gdp_data, log_gdp, labelvars, growthvars>>

\* ------------------------------------------ the two HP scripts as a system
\* Either script starts with nothing computed; the provider holds whatever
\* series the script is going to ask for.
Init ==
  /\ \/ /\ script = "midterm1" /\ pc = "fetch_spain"
        /\ provider \in [{SPAIN, JAPAN} -> ProviderSeries]
     \/ /\ script = "project1" /\ pc = "fetch"
        /\ provider \in [{SPAIN} -> ProviderSeries]
  /\ err = "none"
  /\ HPIdle /\ LabelIdle /\ GrowthIdle

Next ==
  \/ M1_FetchSpain \/ M1_FetchJapan \/ M1_Align \/ M1_Log \/ M1_HPFilter \/ M1_Statistics
  \/ P1_Fetch \/ P1_Log \/ P1_FilterLam

Spec == Init /\ [][Next]_vars

\* ------------------------------------ midterm1-4,5.py, from line 66 on
\* The correlation is a float that gets compared with decimal thresholds, so
\* here it carries its value: [cls |-> "num", num |-> k] is k / CorrScale.
CorrScale == 100
CorrNum(k) == [cls |-> "num", num |-> k, n |-> 0]
CorrNaN == [cls |-> "nan", num |-> 0, n |-> 0]

\* c > tenths / 10 and c >= tenths / 10 as Python evaluates them on a float:
\* False when c is NaN
Gt(c, tenths) == c.cls = "num" /\ 10 * c.num > tenths * CorrScale
Ge(c, tenths) == c.cls = "num" /\ 10 * c.num >= tenths * CorrScale
AbsGt(c, tenths) == c.cls = "num" /\ 10 * Abs(c.num) > tenths * CorrScale

\* lines 66-79, the if/elif chain (the labels are the source's, in English)
correlation_strength_inclusive(c) ==
  IF Ge(c, 7) THEN "very strong positive"
  ELSE IF Ge(c, 5) THEN "strong positive"
  ELSE IF Ge(c, 3) THEN "moderate positive"
  ELSE IF Ge(c, 1) THEN "weak positive"
  ELSE IF Ge(c, -1) THEN "negligible"
  ELSE IF Ge(c, -3) THEN "weak negative"
  ELSE "moderate-or-stronger negative"
correlation_strength_of(c) ==
  IF Gt(c, 7) THEN "very strong positive"
  ELSE IF Gt(c, 5) THEN "strong positive"
  ELSE IF Gt(c, 3) THEN "moderate positive"
  ELSE IF Gt(c, 1) THEN "weak positive"
  ELSE IF Gt(c, -1) THEN "negligible"
  ELSE IF Gt(c, -3) THEN "weak negative"
  ELSE "moderate-or-stronger negative"

\* lines 150-155
Synchronisation(c) ==
  IF AbsGt(c, 5) THEN "high" ELSE IF AbsGt(c, 3) THEN "moderate" ELSE "low"

\* lines 66-81
M1_Label ==
  /\ script = "midterm1" /\ pc = "label"
  /\ correlation_strength' = correlation_strength_of(correlation)
  /\ pc' = "labelled"
  /\ UNCHANGED <<script, err, hpvars, correlation, interpretation, growthvars>>

\* lines 145-155 of the summary
M1_Summary ==
  /\ script = "midterm1" /\ pc = "labelled"
  /\ interpretation' = Synchronisation(correlation)
  /\ pc' = "done"
  /\ UNCHANGED <<script, err, hpvars, correlation, correlation_strength, growthvars>>

\* The script resumed after line 64 with any correlation a float can hold.
InitLabel ==
  /\ script = "midterm1" /\ pc = "label" /\ err = "none"
  /\ provider = NoDict
  /\ HPIdle /\ GrowthIdle
  /\ correlation \in {CorrNum(k) : k \in (-CorrScale)..CorrScale} \cup {CorrNaN}
  /\ correlation_strength = "unset" /\ interpretation = "unset"

NextLabel == M1_Label \/ M1_Summary

SpecLabel == InitLabel /\ [][NextLabel]_vars

\* ------------------------------------------------------------ midterm2.py
\* years of the data frame are 1..MaxYear
MaxYear == 3

\* self.countries (the source lists 22 names; two of them here)
countries == <<"Japan", "Spain">>
\* alpha = 0.33 (line 248), self.beta = 1 - alpha (line 40)
alpha == Rat(33, 100)
beta == RSub(RInt(1), alpha)

\* Levels of GDP, capital and labor: 1 or 64, so that every annualized rate
\* over 1, 2 or 3 years is a rational.
NoRow == [present |-> FALSE, GDP |-> 0, Capital |-> 0, Labor |-> 0]
Level(y, k, l) == [present |-> TRUE, GDP |-> y, Capital |-> k, Labor |-> l]
Levels == {Level(1, 1, 1), Level(64, 64, 1), Level(64, 1, 64)}

RECURSIVE FrameRows(_, _, _)
FrameRows(f, ci, y) ==
  IF ci > Len(countries) THEN <<>>
  ELSE IF y > MaxYear THEN FrameRows(f, ci + 1, 1)
  ELSE (IF f[ci][y].present
        THEN <<[Country |-> countries[ci], Year |-> y, GDP |-> f[ci][y].GDP,
                Capital |-> f[ci][y].Capital, Labor |-> f[ci][y].Labor]>>
        ELSE <<>>) \o FrameRows(f, ci, y + 1)

Reverse(s) == [i \in 1..Len(s) |-> s[Len(s) + 1 - i]]

\* the data frames handed to calculate_growth_rates: any years present for a
\* country, rows in ascending or in descending order
Frames ==
  LET Asc == {FrameRows(f, 1, 1) :
                f \in [1..Len(countries) -> [1..MaxYear -> Levels \cup {NoRow}]]}
  IN  Asc \cup {Reverse(d) : d \in Asc}

RECURSIVE Pow(_, _)
Pow(b, e) == IF e = 0 THEN 1 ELSE b * Pow(b, e - 1)
IntRoot(x, n) == CHOOSE r \in 1..x : Pow(r, n) = x

\* (last / first) ** (1 / n_years) - 1
AnnualGrowth(first, last, n_years) ==
  LET q == Rat(last, first)
  IN  RSub(<<IntRoot(q[1], n_years), IntRoot(q[2], n_years)>>, RInt(1))

\* DataFrame.sort_values('Year'), by insertion
RECURSIVE InsertByYear(_, _)
InsertByYear(r, s) ==
  IF s = <<>> THEN <<r>>
  ELSE IF r.Year <= Head(s).Year THEN <<r>> \o s
  ELSE <<Head(s)>> \o InsertByYear(r, Tail(s))
RECURSIVE sort_values(_)
sort_values(s) == IF s = <<>> THEN <<>> ELSE InsertByYear(Head(s), sort_values(Tail(s)))

\* line 154: g_A = g_Y - alpha * g_K - (1 - alpha) * g_L
tfp_growth_capital_only(gY, gK, gL) == RSub(gY, RMul(alpha, gK))
tfp_growth_of(gY, gK, gL) == RSub(RSub(gY, RMul(alpha, gK)), RMul(beta, gL))

\* lines 138-179: the row computed for one country
GrowthRow(country, country_data) ==
  LET n_years == Len(country_data) - 1
      first == country_data[1]
      last == country_data[Len(country_data)]
      gdp_growth == AnnualGrowth(first.GDP, last.GDP, n_years)
      capital_growth == AnnualGrowth(first.Capital, last.Capital, n_years)
      labor_growth == AnnualGrowth(first.Labor, last.Labor, n_years)
      tfp_growth == tfp_growth_of(gdp_growth, capital_growth, labor_growth)
      capital_contribution == RMul(alpha, capital_growth)
      positive == RLess(RInt(0), gdp_growth)
  IN  [Country |-> country,
       GrowthRate |-> RMul(gdp_growth, RInt(100)),
       TFPGrowth |-> RMul(tfp_growth, RInt(100)),
       CapitalDeepening |-> RMul(RSub(capital_growth, labor_growth), RInt(100)),
       TFPShare |-> IF positive THEN RDiv(tfp_growth, gdp_growth) ELSE RInt(0),
       CapitalShare |-> IF positive THEN RDiv(capital_contribution, gdp_growth) ELSE RInt(0)]

\* lines 137-179: one pass of the loop over self.countries
GA_Country ==
  /\ script = "midterm2" /\ pc = "calculate" /\ country_i <= Len(countries)
  /\ LET country == countries[country_i]
         Of(r) == r.Country = country
         country_data == sort_values(SelectSeq(data, Of))
     IN  results' = IF Len(country_data) < 2 THEN results
                    ELSE Append(results, GrowthRow(country, country_data))
  /\ country_i' = country_i + 1
  /\ UNCHANGED <<script, pc, err, hpvars, labelvars, data>>

\* line 181: the loop is over, the rows are returned
GA_Return ==
  /\ script = "midterm2" /\ pc = "calculate" /\ country_i > Len(countries)
  /\ pc' = "returned"
  /\ UNCHANGED <<script, err, hpvars, labelvars, growthvars>>

InitGrowth ==
  /\ script = "midterm2" /\ pc = "calculate" /\ err = "none"
  /\ provider = NoDict
  /\ HPIdle /\ LabelIdle
  /\ data \in Frames
  /\ country_i = 1 /\ results = <<>>

NextGrowth == GA_Country \/ GA_Return

SpecGrowth == InitGrowth /\ [][NextGrowth]_vars

\* ================================================================ claims
FilterReturned == script = "midterm1" /\ pc \in {"stats", "reported"}
Aligned == script = "midterm1" /\ common_start # 0

\* The cycle of a log series x for a penalty lamb: x minus its HP trend.
CycleOutput(x, lamb) == Wrap(x, HPCycle(Values(x), HPTrend(Values(x), lamb)))

\* C1: the series whose standard deviation, ratio and correlation the
\* comparison script reports as cycle statistics are the filter's cycle
\* output (series minus trend), as they are for every lambda of the
\* sensitivity script.
C1_CycleStatisticsUseCycleOutput ==
  /\ FilterReturned =>
       /\ spain_cycle = CycleOutput(log_spain_gdp, 1600)
       /\ japan_cycle = CycleOutput(log_japan_gdp, 1600)
       /\ pc = "reported" =>
            /\ spain_cycle_std = Std(CycleOutput(log_spain_gdp, 1600))
            /\ japan_cycle_std = Std(CycleOutput(log_japan_gdp, 1600))
  /\ script = "project1" =>
       \A l \in DOMAIN cycles : cycles[l] = CycleOutput(log_gdp, l)

\* C3: alignment keeps, of each gap-free series, exactly the observations
\* dated within [max of the two first dates, min of the two last dates],
\* unchanged and in order, whenever that range is not empty.
C3_Lo == IF spain_gdp[1].t >= japan_gdp[1].t THEN spain_gdp[1].t ELSE japan_gdp[1].t
C3_Hi ==
  IF spain_gdp[Len(spain_gdp)].t <= japan_gdp[Len(japan_gdp)].t
  THEN spain_gdp[Len(spain_gdp)].t ELSE japan_gdp[Len(japan_gdp)].t
C3_Exactly(orig, al) ==
  /\ \A i \in 1..Len(orig) :
       (C3_Lo <= orig[i].t /\ orig[i].t <= C3_Hi) <=> (\E j \in 1..Len(al) : al[j] = orig[i])
  /\ \A j \in 1..Len(al) : \E i \in 1..Len(orig) : orig[i] = al[j]
  /\ \A j, k \in 1..Len(al) : j < k => al[j].t < al[k].t
C3_AlignKeepsExactlyCommonRange ==
  (Aligned /\ C3_Lo <= C3_Hi) =>
     /\ C3_Exactly(spain_gdp, spain_gdp_aligned)
     /\ C3_Exactly(japan_gdp, japan_gdp_aligned)
C3_Witness ==
  /\ Aligned /\ pc = "log"
  /\ Len(spain_gdp_aligned) >= 2 /\ Len(spain_gdp_aligned) < Len(spain_gdp)
  /\ spain_gdp_aligned[Len(spain_gdp_aligned)].t = C3_Hi
  /\ spain_gdp_aligned[1].t = C3_Lo

\* C4: for every series of at least 3 observations the trend and the cycle
\* bound from a filter call have the timestamps of the series and add up
\* to it at every timestamp, in both scripts.
C4_AddsUp(tr, cy, s) ==
  /\ Len(tr) = Len(s) /\ Len(cy) = Len(s)
  /\ \A i \in 1..Len(s) :
       /\ tr[i].t = s[i].t /\ cy[i].t = s[i].t
       /\ RAdd(tr[i].v, cy[i].v) = RInt(s[i].v)
C4_TrendPlusCycleIsSeries ==
  /\ FilterReturned =>
       /\ Len(log_spain_gdp) >= 3 => C4_AddsUp(spain_trend, spain_cycle, log_spain_gdp)
       /\ Len(log_japan_gdp) >= 3 => C4_AddsUp(japan_trend, japan_cycle, log_japan_gdp)
  /\ (script = "project1" /\ Len(log_gdp) >= 3) =>
       /\ DOMAIN trends = DOMAIN cycles
       /\ \A l \in DOMAIN trends : C4_AddsUp(trends[l], cycles[l], log_gdp)
C4_Witness ==
  /\ FilterReturned /\ Len(log_spain_gdp) >= 3
  /\ \E i \in 1..Len(log_spain_gdp) :
       /\ spain_trend[i].v # RInt(0) /\ spain_cycle[i].v # RInt(0)
       /\ spain_trend[i].v # spain_cycle[i].v

\* C5: when the two aligned series differ in their timestamps the
\* comparison fails with MisalignedSeriesError and reports no statistics.
C5_MisalignedSeriesRaise ==
  (Aligned /\ Index(spain_gdp_aligned) # Index(japan_gdp_aligned)) =>
     pc # "reported"

\* C6: with no overlap of the two date ranges the alignment fails with
\* EmptyIntersectionError and nothing after it runs.
C6_EmptyIntersectionRaises ==
  (Aligned /\ common_start > common_end) =>
     /\ err = "EmptyIntersectionError"
     /\ log_spain_gdp = NoSeries /\ log_japan_gdp = NoSeries
     /\ hp_calls = {}

\* C7: a denominator series of zero variance makes the ratio fail with
\* DivisionByZeroError; no ratio is produced.
C7_ZeroVarianceRaises ==
  (script = "midterm1" /\ japan_cycle_std = "zero") =>
     /\ err = "DivisionByZeroError"
     /\ std_ratio = "unset"

\* C8: a series of fewer than 3 observations handed to the filter makes it
\* fail with InsufficientDataError.
C8_ShortSeriesRaise ==
  \A c \in hp_calls : Len(c.x) < 3 => (pc = "aborted" /\ err = "InsufficientDataError")

\* C9: every series handed to the filter has no missing value and is the
\* log of exactly the provider's non-missing observations (of the common
\* range in the comparison script), on their dates and in their order.
C9_Present(p) == {p[k].t : k \in {j \in 1..Len(p) : p[j].v.kind = "num"}}
C9_Lo ==
  IF script = "midterm1"
  THEN SetMax({SetMin(C9_Present(provider[SPAIN])), SetMin(C9_Present(provider[JAPAN]))})
  ELSE 1
C9_Hi ==
  IF script = "midterm1"
  THEN SetMin({SetMax(C9_Present(provider[SPAIN])), SetMax(C9_Present(provider[JAPAN]))})
  ELSE MaxT
C9_Clean(x, p) ==
  /\ \A i \in 1..Len(x) :
       \E k \in 1..Len(p) :
          /\ p[k].t = x[i].t /\ p[k].v.kind = "num" /\ x[i].v = p[k].v.exp
          /\ C9_Lo <= x[i].t /\ x[i].t <= C9_Hi
  /\ \A k \in 1..Len(p) :
       (p[k].v.kind = "num" /\ C9_Lo <= p[k].t /\ p[k].t <= C9_Hi)
          => \E i \in 1..Len(x) : x[i].t = p[k].t
  /\ \A i, j \in 1..Len(x) : i < j => x[i].t < x[j].t
C9_FilterInputIsProviderData ==
  \A c \in hp_calls :
     IF script = "midterm1"
     THEN \/ c.x = log_spain_gdp /\ C9_Clean(c.x, provider[SPAIN])
          \/ c.x = log_japan_gdp /\ C9_Clean(c.x, provider[JAPAN])
     ELSE c.x = log_gdp /\ C9_Clean(c.x, provider[SPAIN])
C9_Witness ==
  /\ script = "midterm1" /\ hp_calls # {}
  /\ \E k \in 1..MaxT :
       /\ provider[SPAIN][k].v.kind = "nan"
       /\ common_start < k /\ k < common_end

\* C2 as stated: the label is the one of the first row of the table whose
\* lower bound is at most the correlation (lower bounds inclusive).
Labelled == script = "midterm1" /\ pc \in {"labelled", "done"} /\ correlation.cls = "num"
TenC == 10 * correlation.num
C2_LabelHasInclusiveLowerBounds ==
  Labelled =>
     /\ (TenC >= 7 * CorrScale) => correlation_strength = "very strong positive"
     /\ (5 * CorrScale <= TenC /\ TenC < 7 * CorrScale) => correlation_strength = "strong positive"
     /\ (3 * CorrScale <= TenC /\ TenC < 5 * CorrScale) => correlation_strength = "moderate positive"
     /\ (1 * CorrScale <= TenC /\ TenC < 3 * CorrScale) => correlation_strength = "weak positive"
     /\ (-1 * CorrScale <= TenC /\ TenC < 1 * CorrScale) => correlation_strength = "negligible"
     /\ (-3 * CorrScale <= TenC /\ TenC < -1 * CorrScale) => correlation_strength = "weak negative"
     /\ (TenC < -3 * CorrScale) => correlation_strength = "moderate-or-stronger negative"

\* C2 amended: every correlation in [-1, 1] gets exactly one of the seven
\* labels, the one of the first row whose bound is strictly below it: a
\* correlation equal to a bound gets the label of the next row.
C2_LabelHasExclusiveLowerBounds ==
  Labelled =>
     /\ (TenC > 7 * CorrScale) => correlation_strength = "very strong positive"
     /\ (5 * CorrScale < TenC /\ TenC <= 7 * CorrScale) => correlation_strength = "strong positive"
     /\ (3 * CorrScale < TenC /\ TenC <= 5 * CorrScale) => correlation_strength = "moderate positive"
     /\ (1 * CorrScale < TenC /\ TenC <= 3 * CorrScale) => correlation_strength = "weak positive"
     /\ (-1 * CorrScale < TenC /\ TenC <= 1 * CorrScale) => correlation_strength = "negligible"
     /\ (-3 * CorrScale < TenC /\ TenC <= -1 * CorrScale) => correlation_strength = "weak negative"
     /\ (TenC <= -3 * CorrScale) => correlation_strength = "moderate-or-stronger negative"
C2_Witness ==
  /\ Labelled /\ TenC = 7 * CorrScale
  /\ correlation_strength = "strong positive"

\* C10: every country of the list with at least 2 yearly observations gets
\* one row, whose growth rate g_Y and TFP growth g_A satisfy
\* g_Y = g_A + alpha * g_K + (1 - alpha) * g_L for the annualized rates
\* between its first and its last year; a country with fewer gets no row.
C10_Rows(c) == {data[i] : i \in {j \in 1..Len(data) : data[j].Country = c}}
C10_First(c) == CHOOSE r \in C10_Rows(c) : \A q \in C10_Rows(c) : r.Year <= q.Year
C10_Last(c) == CHOOSE r \in C10_Rows(c) : \A q \in C10_Rows(c) : r.Year >= q.Year
C10_Percent(x) == RDiv(x, RInt(100))
C10_Identity(c, row) ==
  LET n == Cardinality(C10_Rows(c)) - 1
      gY == AnnualGrowth(C10_First(c).GDP, C10_Last(c).GDP, n)
      gK == AnnualGrowth(C10_First(c).Capital, C10_Last(c).Capital, n)
      gL == AnnualGrowth(C10_First(c).Labor, C10_Last(c).Labor, n)
      gA == C10_Percent(row.TFPGrowth)
  IN  /\ C10_Percent(row.GrowthRate) = gY
      /\ gY = RAdd(gA, RAdd(RMul(<<33, 100>>, gK), RMul(<<67, 100>>, gL)))
C10_GrowthAccountingIdentity ==
  script = "midterm2" =>
     \A k \in 1..(country_i - 1) :
        LET c == countries[k]
            mine == {i \in 1..Len(results) : results[i].Country = c}
        IN  IF Cardinality(C10_Rows(c)) < 2 THEN mine = {}
            ELSE /\ Cardinality(mine) = 1
                 /\ \A i \in mine : C10_Identity(c, results[i])
C10_Witness ==
  /\ script = "midterm2" /\ pc = "returned" /\ Len(results) = 1
  /\ results[1].Country = "Spain"
  /\ Cardinality(C10_Rows("Spain")) = 3
  /\ C10_First("Spain").Labor # C10_Last("Spain").Labor
  /\ C10_First("Spain").Capital # C10_Last("Spain").Capital
  /\ data[1].Year > data[Len(data)].Year

====
